---- MODULE Spec2Model ----
(***************************************************************************)
(* Tenant provisioning orchestrator of maven_core: the tier registry and   *)
(* step filter (provisioning/tiers.py), the provisioning job store and the *)
(* step-execution engine (provisioning/tenant.py), and the control-plane   *)
(* routes that create, poll and stream a job (server/routes.py).           *)
(*                                                                         *)
(* Every database statement is one atomic step; a run of the engine is cut *)
(* at its awaits, so runs of the same or of different jobs interleave      *)
(* between any two statements.  A yield that follows a statement is taken  *)
(* in the same step as that statement: it touches no shared state.         *)
(***************************************************************************)
EXTENDS Integers, Sequences, FiniteSets, TLC

\* Python's None in a nullable column or attribute.
NULL == "NULL"

\* Bounds of the model.
MaxJobs == 1
MaxStreams == 1
MaxRaceJobs == 2

JobIds == 1..MaxJobs

\* Request inputs.
TenantIdInputs == {"t1", "", NULL}
JobIdInputs == JobIds \cup {0}
TierInputs == {"starter", "pro", "enterprise", "bogus"}
TenantNames == {"Acme"}
NameInputs == TenantNames \cup {NULL}

\* str(uuid4()) of create_provisioning_job, one fresh value per job.
Uuid(j) == <<"uuid-1", "uuid-2", "uuid-3", "uuid-4">>[j]

----------------------------------------------------------------------------
\* provisioning/tiers.py

TENANT_TIERS ==
  [ starter |->
      [ id |-> "starter", display_name |-> "Starter",
        limits |-> [max_users |-> 10, storage_mb |-> 1024, max_sessions |-> 100],
        features |-> {"basic_analytics"},
        infra |-> [storage |-> "shared", database |-> "shared", custom_domain |-> FALSE] ],
    pro |->
      [ id |-> "pro", display_name |-> "Pro",
        limits |-> [max_users |-> 100, storage_mb |-> 10240, max_sessions |-> 1000],
        features |-> {"basic_analytics", "advanced_analytics", "api_access"},
        infra |-> [storage |-> "dedicated", database |-> "dedicated", custom_domain |-> FALSE] ],
    enterprise |->
      [ id |-> "enterprise", display_name |-> "Enterprise",
        limits |-> [max_users |-> -1, storage_mb |-> 102400, max_sessions |-> -1],
        features |-> {"basic_analytics", "advanced_analytics", "api_access",
                      "sso", "custom_domain", "sla"},
        infra |-> [storage |-> "dedicated", database |-> "dedicated", custom_domain |-> TRUE] ] ]

ProvisioningStep(id, name, required_infra, required_feature) ==
  [id |-> id, name |-> name, required_infra |-> required_infra,
   required_feature |-> required_feature]

PROVISIONING_STEPS ==
  << ProvisioningStep("create_record", "Create Tenant Record", NULL, NULL),
     ProvisioningStep("provision_storage", "Provision Storage", NULL, NULL),
     ProvisioningStep("provision_database", "Provision Database", "dedicated", NULL),
     ProvisioningStep("update_bindings", "Update Worker Bindings", "dedicated", NULL),
     ProvisioningStep("deploy_worker", "Deploy Worker", "dedicated", NULL),
     ProvisioningStep("initialize_storage", "Initialize Storage", NULL, NULL),
     ProvisioningStep("create_roles", "Create Default Roles", NULL, NULL),
     ProvisioningStep("configure_auth", "Configure Authentication", NULL, NULL),
     ProvisioningStep("apply_limits", "Apply Tier Limits", NULL, NULL),
     ProvisioningStep("configure_domain", "Configure Custom Domain", NULL, "custom_domain"),
     ProvisioningStep("store_config", "Store Configuration", NULL, NULL),
     ProvisioningStep("verify_connectivity", "Verify Connectivity", NULL, NULL),
     ProvisioningStep("finalize", "Finalize Setup", NULL, NULL) >>

\* Python truthiness of an optional string.
Truthy(v) == v \notin {NULL, ""}

\* An optional value: {} is None, {v} is the value v.
Some(v) == {v}
Nothing == {}
Value(opt) == CHOOSE v \in opt : TRUE

\* TENANT_TIERS.get(tier_id)
get_tier(tier_id) ==
  IF tier_id \in DOMAIN TENANT_TIERS THEN Some(TENANT_TIERS[tier_id]) ELSE Nothing

\* StepApplicable without the infrastructure test: only the feature test is left.
StepApplicable_NoInfraTest(tier, step) ==
  ~( /\ step.required_feature # NULL
     /\ step.required_feature \notin tier.features )

\* StepApplicable with the feature test inverted: a feature-gated step is dropped
\* for the tiers that have the feature.
StepApplicable_FeatureInverted(tier, step) ==
  /\ ~( /\ step.required_infra = "dedicated"
        /\ tier.infra.storage # "dedicated"
        /\ tier.infra.database # "dedicated" )
  /\ ~( /\ step.required_feature # NULL
        /\ step.required_feature \in tier.features )

\* One pass of the filter loop: TRUE when neither `continue` is taken.
StepApplicable(tier, step) ==
  /\ ~( /\ step.required_infra = "dedicated"
        /\ tier.infra.storage # "dedicated"
        /\ tier.infra.database # "dedicated" )
  /\ ~( /\ step.required_feature # NULL
        /\ step.required_feature \notin tier.features )

get_provisioning_steps(tier) ==
  SelectSeq(PROVISIONING_STEPS, LAMBDA step : StepApplicable(tier, step))

get_tier_limits(tier_id) ==
  LET tier == IF get_tier(tier_id) = Nothing THEN TENANT_TIERS["starter"]
              ELSE Value(get_tier(tier_id))
  IN  [ max_users |-> tier.limits.max_users,
        storage_mb |-> tier.limits.storage_mb,
        max_sessions |-> tier.limits.max_sessions,
        max_skills |-> 100,
        max_connectors |-> 50,
        sandbox_timeout_seconds |-> 30,
        sandbox_memory_mb |-> 256 ]

\* [s.id for s in steps]
StepIds(steps) == [i \in 1..Len(steps) |-> steps[i].id]

----------------------------------------------------------------------------
\* provisioning/tenant.py: the stores

VARIABLES
  jobs,      \* table provisioning_jobs: job id -> row
  tenants,   \* table tenants: tenant_id -> row
  runs,      \* the invocations of the engine and the stream responses, in start order
  nstreams,  \* stream requests answered so far
  response   \* the HTTP exchange of the step just taken, None when it answered no request

vars == <<jobs, tenants, runs, nstreams, response>>

\* Exception texts, str(e).
DbError == "database unavailable"
UniqueError == "UNIQUE constraint failed: tenants.tenant_id"
FileError == "Invalid key"

\* time.time(): the model keeps only whether a timestamp column is set.
Now == "now"

_default_settings == [auth_mode |-> "builtin"]

\* create_provisioning_job counting the master list instead of the tier's list.
create_provisioning_job_master_total(job_id, name, tier_in, tenant_id_in) ==
  [ id |-> job_id,
    tenant_id |-> IF tenant_id_in = NULL THEN Uuid(job_id) ELSE tenant_id_in,
    tenant_name |-> name,
    tier |-> IF get_tier(tier_in) = Nothing THEN "starter" ELSE tier_in,
    status |-> "pending",
    current_step |-> 0,
    total_steps |-> Len(PROVISIONING_STEPS),
    steps_completed |-> << >>,
    steps_skipped |-> << >>,
    current_step_name |-> NULL,
    error |-> NULL,
    created_at |-> Now,
    updated_at |-> Now,
    completed_at |-> NULL ]

\* INSERT INTO provisioning_jobs of create_provisioning_job.
create_provisioning_job(job_id, name, tier_in, tenant_id_in) ==
  LET tenant_id == IF tenant_id_in = NULL THEN Uuid(job_id) ELSE tenant_id_in
      tier == IF get_tier(tier_in) = Nothing THEN "starter" ELSE tier_in
      tier_config == IF get_tier(tier_in) = Nothing THEN TENANT_TIERS["starter"]
                     ELSE Value(get_tier(tier_in))
      steps == get_provisioning_steps(tier_config)
  IN  [ id |-> job_id,
        tenant_id |-> tenant_id,
        tenant_name |-> name,
        tier |-> tier,
        status |-> "pending",
        current_step |-> 0,
        total_steps |-> Len(steps),
        steps_completed |-> << >>,
        steps_skipped |-> << >>,
        current_step_name |-> NULL,
        error |-> NULL,
        created_at |-> Now,
        updated_at |-> Now,
        completed_at |-> NULL ]

\* The keyword arguments of update_provisioning_job, all defaulting to None.
NoArgs ==
  [ status |-> Nothing, current_step |-> Nothing, current_step_name |-> Nothing,
    steps_completed |-> Nothing, steps_skipped |-> Nothing, error |-> Nothing,
    completed_at |-> Nothing ]

\* update_provisioning_job recomputing total_steps as the master list's length.
update_provisioning_job_resets_total(table, job_id, args) ==
  IF job_id \notin DOMAIN table THEN table
  ELSE [ table EXCEPT ![job_id] =
           [ @ EXCEPT
               !.updated_at = Now,
               !.total_steps = Len(PROVISIONING_STEPS),
               !.status = IF args.status # Nothing THEN Value(args.status) ELSE @,
               !.current_step =
                  IF args.current_step # Nothing THEN Value(args.current_step) ELSE @,
               !.current_step_name =
                  IF args.current_step_name # Nothing
                  THEN Value(args.current_step_name) ELSE @,
               !.steps_completed =
                  IF args.steps_completed # Nothing
                  THEN Value(args.steps_completed) ELSE @,
               !.steps_skipped =
                  IF args.steps_skipped # Nothing THEN Value(args.steps_skipped) ELSE @,
               !.error = IF args.error # Nothing THEN Value(args.error) ELSE @,
               !.completed_at =
                  IF args.completed_at # Nothing THEN Value(args.completed_at) ELSE @ ] ]

\* update_provisioning_job testing its arguments by truthiness: an argument
\* that is set but falsy is not written.
update_provisioning_job_truthy(table, job_id, args) ==
  IF job_id \notin DOMAIN table THEN table
  ELSE [ table EXCEPT ![job_id] =
           [ @ EXCEPT
               !.updated_at = Now,
               !.status = IF args.status \notin {Nothing, Some("")}
                          THEN Value(args.status) ELSE @,
               !.current_step =
                  IF args.current_step \notin {Nothing, Some(0)}
                  THEN Value(args.current_step) ELSE @,
               !.current_step_name =
                  IF args.current_step_name \notin {Nothing, Some("")}
                  THEN Value(args.current_step_name) ELSE @,
               !.steps_completed =
                  IF args.steps_completed \notin {Nothing, Some(<< >>)}
                  THEN Value(args.steps_completed) ELSE @,
               !.steps_skipped =
                  IF args.steps_skipped \notin {Nothing, Some(<< >>)}
                  THEN Value(args.steps_skipped) ELSE @,
               !.error = IF args.error \notin {Nothing, Some("")}
                         THEN Value(args.error) ELSE @,
               !.completed_at =
                  IF args.completed_at # Nothing THEN Value(args.completed_at) ELSE @ ] ]

\* UPDATE provisioning_jobs SET <the supplied fields>, updated_at WHERE id = :id
update_provisioning_job(table, job_id, args) ==
  IF job_id \notin DOMAIN table THEN table
  ELSE [ table EXCEPT ![job_id] =
           [ @ EXCEPT
               !.updated_at = Now,
               !.status = IF args.status # Nothing THEN Value(args.status) ELSE @,
               !.current_step =
                  IF args.current_step # Nothing THEN Value(args.current_step) ELSE @,
               !.current_step_name =
                  IF args.current_step_name # Nothing
                  THEN Value(args.current_step_name) ELSE @,
               !.steps_completed =
                  IF args.steps_completed # Nothing
                  THEN Value(args.steps_completed) ELSE @,
               !.steps_skipped =
                  IF args.steps_skipped # Nothing THEN Value(args.steps_skipped) ELSE @,
               !.error = IF args.error # Nothing THEN Value(args.error) ELSE @,
               !.completed_at =
                  IF args.completed_at # Nothing THEN Value(args.completed_at) ELSE @ ] ]

\* A tenants table without a key: an INSERT never fails on an existing id.
TenantsPrimaryKeyFree_always(table, tenant_id) == TRUE

\* The tenant_id primary key of table tenants: an INSERT of an existing key fails.
TenantsPrimaryKeyFree(table, tenant_id) == tenant_id \notin DOMAIN table

\* _step_create_record inserting the row as active at once.
_step_create_record_active(tenant_id, tenant_name, tier) ==
  [ tenant_id |-> tenant_id,
    name |-> tenant_name,
    status |-> "active",
    tier |-> tier,
    settings |-> _default_settings,
    limits |-> get_tier_limits(tier),
    metadata |-> [k \in {} |-> NULL],
    created_at |-> Now,
    updated_at |-> Now ]

\* The row _step_create_record inserts.
_step_create_record(tenant_id, tenant_name, tier) ==
  [ tenant_id |-> tenant_id,
    name |-> tenant_name,
    status |-> "provisioning",
    tier |-> tier,
    settings |-> _default_settings,
    limits |-> get_tier_limits(tier),
    metadata |-> [k \in {} |-> NULL],
    created_at |-> Now,
    updated_at |-> Now ]

\* UPDATE tenants SET limits = get_tier_limits(tier) WHERE tenant_id = :tenant_id
_step_apply_limits(table, tenant_id, tier) ==
  IF tenant_id \notin DOMAIN table THEN table
  ELSE [table EXCEPT ![tenant_id].limits = get_tier_limits(tier),
                     ![tenant_id].updated_at = Now]

\* UPDATE tenants SET status = 'active' WHERE tenant_id = :tenant_id
_step_finalize(table, tenant_id) ==
  IF tenant_id \notin DOMAIN table THEN table
  ELSE [table EXCEPT ![tenant_id].status = "active", ![tenant_id].updated_at = Now]

\* Extends a table by one row.
Insert(table, key, row) ==
  [k \in DOMAIN table \cup {key} |-> IF k = key THEN row ELSE table[k]]

\* Removes one row of a table.
Delete(table, key) == [k \in DOMAIN table \ {key} |-> table[k]]

----------------------------------------------------------------------------
\* provisioning/tenant.py: the engine, provision_tenant_with_progress

\* A ProvisioningEvent; an absent step_number is 0, any other absent field NULL.
ProvisioningEvent(type, step_id, step_number, tenant_id, error) ==
  [type |-> type, step_id |-> step_id, step_number |-> step_number,
   tenant_id |-> tenant_id, error |-> error]

\* The locals of one invocation of the generator, before its first statement.
NewRun(job_id, kind) ==
  [ job |-> job_id, kind |-> kind, pc |-> "begin",
    tenant_id |-> NULL, tenant_name |-> NULL, tier |-> NULL,
    step_number |-> 0, steps_completed |-> << >>, steps_skipped |-> << >>,
    events |-> << >>, sent |-> << >>, handlers |-> << >>,
    error_msg |-> NULL, raised_in |-> NULL ]

\* tier_config of a run: get_tier(job.tier), or starter when that is None.
tier_config(run) ==
  IF get_tier(run.tier) = Nothing THEN TENANT_TIERS["starter"]
  ELSE Value(get_tier(run.tier))

\* steps taken from the master list, unfiltered.
steps_unfiltered(run) == PROVISIONING_STEPS

\* steps of a run: the filtered list of its tier.
steps(run) == get_provisioning_steps(tier_config(run))

\* The skip test with the feature test inverted: unlike the filter's, it holds
\* of a feature-gated step when the tier has the feature.
should_skip_feature_present(tier, step) ==
  \/ /\ step.required_infra = "dedicated"
     /\ tier.infra.storage # "dedicated"
     /\ tier.infra.database # "dedicated"
  \/ /\ step.required_feature # NULL
     /\ step.required_feature \in tier.features

\* The skip test at the top of the step loop.
should_skip(tier, step) ==
  \/ /\ step.required_infra = "dedicated"
     /\ tier.infra.storage # "dedicated"
     /\ tier.infra.database # "dedicated"
  \/ /\ step.required_feature # NULL
     /\ step.required_feature \notin tier.features

\* An exception raised inside the try block: control goes to the except clause.
\* raised_in records the call that raised: a step handler ("handler") or a
\* statement on provisioning_jobs ("job_store").
Raise(run, msg, raised_in) ==
  [run EXCEPT !.pc = "except", !.error_msg = msg, !.raised_in = raised_in]

\* An exception raised outside the try block leaves the generator and reaches
\* its consumer.
Propagate(run, msg) ==
  [run EXCEPT !.pc = "crashed", !.error_msg = msg, !.raised_in = "job_store"]

\* ProvisioningEvent.to_dict: type, and each other field that is set. step_number
\* is tested against None, the other fields by truthiness.
to_dict(event) ==
  LET keys == {"type"}
              \cup (IF Truthy(event.step_id) THEN {"step_id"} ELSE {})
              \cup (IF event.step_number # 0 THEN {"step_number"} ELSE {})
              \cup (IF Truthy(event.tenant_id) THEN {"tenant_id"} ELSE {})
              \cup (IF Truthy(event.error) THEN {"error"} ELSE {})
  IN  [k \in keys |-> event[k]]

\* yield event: the consumer of a stream run writes event.to_dict() to the
\* response, the background task drops the event.
Emit(run, event) ==
  [run EXCEPT !.events = Append(@, event),
              !.sent = IF run.kind = "stream" THEN Append(@, to_dict(event)) ELSE @]

\* Begin returning without an event when the job has no row.
Begin_silent_when_absent(r) ==
  /\ runs[r].pc = "begin"
  /\ UNCHANGED <<tenants, nstreams>>
  /\ response' = Nothing
  /\ \E ok \in BOOLEAN :
       LET run == runs[r] IN
       IF ~ok
       THEN /\ runs' = [runs EXCEPT ![r] = Propagate(run, DbError)]
            /\ UNCHANGED jobs
       ELSE IF run.job \notin DOMAIN jobs
       THEN /\ runs' = [runs EXCEPT ![r] = [run EXCEPT !.pc = "done"]]
            /\ UNCHANGED jobs
       ELSE /\ jobs' = update_provisioning_job(jobs, run.job,
                          [NoArgs EXCEPT !.status = Some("running")])
            /\ runs' = [runs EXCEPT ![r] =
                 [ run EXCEPT !.pc = "loop",
                              !.tenant_id = jobs[run.job].tenant_id,
                              !.tenant_name = jobs[run.job].tenant_name,
                              !.tier = jobs[run.job].tier ]]

\* Lines 476-495: load the job, resolve the tier, write status = running.
\* The columns read here never change, so the read is taken with the write.
Begin(r) ==
  /\ runs[r].pc = "begin"
  /\ UNCHANGED <<tenants, nstreams>>
  /\ response' = Nothing
  /\ \E ok \in BOOLEAN :
       LET run == runs[r] IN
       IF ~ok
       THEN /\ runs' = [runs EXCEPT ![r] = Propagate(run, DbError)]
            /\ UNCHANGED jobs
       ELSE IF run.job \notin DOMAIN jobs
       THEN /\ runs' = [runs EXCEPT ![r] =
                 [ Emit(run, ProvisioningEvent("failed", NULL, 0, NULL, "Job not found"))
                     EXCEPT !.pc = "done" ]]
            /\ UNCHANGED jobs
       ELSE /\ jobs' = update_provisioning_job(jobs, run.job,
                          [NoArgs EXCEPT !.status = Some("running")])
            /\ runs' = [runs EXCEPT ![r] =
                 [ run EXCEPT !.pc = "loop",
                              !.tenant_id = jobs[run.job].tenant_id,
                              !.tenant_name = jobs[run.job].tenant_name,
                              !.tier = jobs[run.job].tier ]]

\* Lines 498-542: the next iteration of the loop, up to the handler call.
StartStep(r) ==
  /\ runs[r].pc = "loop"
  /\ runs[r].step_number < Len(steps(runs[r]))
  /\ UNCHANGED <<tenants, nstreams>>
  /\ response' = Nothing
  /\ \E ok \in BOOLEAN :
       LET run == runs[r]
           step_number == run.step_number + 1
           step == steps(run)[step_number]
           skipped == Append(run.steps_skipped, step.id)
       IN
       IF should_skip(tier_config(run), step)
       THEN LET run1 == [run EXCEPT !.step_number = step_number,
                                    !.steps_skipped = skipped] IN
            IF ok
            THEN /\ jobs' = update_provisioning_job(jobs, run.job,
                      [NoArgs EXCEPT !.current_step = Some(step_number),
                                     !.current_step_name = Some(step.name),
                                     !.steps_skipped = Some(skipped)])
                 /\ runs' = [runs EXCEPT ![r] =
                      Emit(run1, ProvisioningEvent("step_skipped", step.id,
                                                   step_number, NULL, NULL))]
            ELSE /\ runs' = [runs EXCEPT ![r] = Raise(run1, DbError, "job_store")]
                 /\ UNCHANGED jobs
       ELSE LET run1 == [run EXCEPT !.step_number = step_number] IN
            IF ok
            THEN /\ jobs' = update_provisioning_job(jobs, run.job,
                      [NoArgs EXCEPT !.current_step = Some(step_number),
                                     !.current_step_name = Some(step.name)])
                 /\ runs' = [runs EXCEPT ![r] =
                      [ Emit(run1, ProvisioningEvent("step_started", step.id,
                                                     step_number, NULL, NULL))
                          EXCEPT !.pc = "exec" ]]
            ELSE /\ runs' = [runs EXCEPT ![r] = Raise(run1, DbError, "job_store")]
                 /\ UNCHANGED jobs

\* The handlers that only sleep: they change nothing and raise nothing.
SleepingSteps ==
  {"provision_storage", "provision_database", "update_bindings", "deploy_worker",
   "configure_auth", "configure_domain", "store_config", "verify_connectivity"}

\* Lines 544-552 and _execute_provisioning_step: the handler of the current step.
\* ok is FALSE when the store the handler calls raises.
ExecStep(r) ==
  /\ runs[r].pc = "exec"
  /\ UNCHANGED <<jobs, nstreams>>
  /\ response' = Nothing
  /\ \E ok \in BOOLEAN :
       LET run == runs[r]
           step_id == steps(run)[run.step_number].id
           run1 == [run EXCEPT !.handlers = Append(@, step_id)]
           returned == [run1 EXCEPT !.pc = "complete"]
       IN
       CASE step_id = "create_record" ->
              IF ~ok
              THEN /\ runs' = [runs EXCEPT ![r] = Raise(run1, DbError, "handler")]
                   /\ UNCHANGED tenants
              ELSE IF ~TenantsPrimaryKeyFree(tenants, run.tenant_id)
              THEN /\ runs' = [runs EXCEPT ![r] = Raise(run1, UniqueError, "handler")]
                   /\ UNCHANGED tenants
              ELSE /\ tenants' = Insert(tenants, run.tenant_id,
                         _step_create_record(run.tenant_id, run.tenant_name, run.tier))
                   /\ runs' = [runs EXCEPT ![r] = returned]
         [] step_id = "initialize_storage" ->
              /\ runs' = [runs EXCEPT ![r] =
                   IF ok THEN returned ELSE Raise(run1, FileError, "handler")]
              /\ UNCHANGED tenants
         [] step_id = "create_roles" ->
              /\ runs' = [runs EXCEPT ![r] =
                   IF ok THEN returned ELSE Raise(run1, DbError, "handler")]
              /\ UNCHANGED tenants
         [] step_id = "apply_limits" ->
              IF ok
              THEN /\ tenants' = _step_apply_limits(tenants, run.tenant_id, run.tier)
                   /\ runs' = [runs EXCEPT ![r] = returned]
              ELSE /\ runs' = [runs EXCEPT ![r] = Raise(run1, DbError, "handler")]
                   /\ UNCHANGED tenants
         [] step_id = "finalize" ->
              IF ok
              THEN /\ tenants' = _step_finalize(tenants, run.tenant_id)
                   /\ runs' = [runs EXCEPT ![r] = returned]
              ELSE /\ runs' = [runs EXCEPT ![r] = Raise(run1, DbError, "handler")]
                   /\ UNCHANGED tenants
         [] OTHER ->
              /\ ok
              /\ runs' = [runs EXCEPT ![r] = returned]
              /\ UNCHANGED tenants

\* The step's completion recording the step id in steps_skipped as well.
CompleteStep_also_skipped(r) ==
  /\ runs[r].pc = "complete"
  /\ UNCHANGED <<tenants, nstreams>>
  /\ response' = Nothing
  /\ LET run == runs[r]
         step_id == steps(run)[run.step_number].id
         run1 == [run EXCEPT !.steps_completed = Append(@, step_id),
                             !.steps_skipped = Append(@, step_id)]
     IN  /\ jobs' = update_provisioning_job(jobs, run.job,
                 [NoArgs EXCEPT !.steps_completed = Some(run1.steps_completed),
                                !.steps_skipped = Some(run1.steps_skipped)])
         /\ runs' = [runs EXCEPT ![r] =
                 [ Emit(run1, ProvisioningEvent("step_completed", step_id,
                                                run.step_number, NULL, NULL))
                     EXCEPT !.pc = "loop" ]]

\* The step's completion persisting the last step id only, not the list.
CompleteStep_last_only(r) ==
  /\ runs[r].pc = "complete"
  /\ UNCHANGED <<tenants, nstreams>>
  /\ response' = Nothing
  /\ LET run == runs[r]
         step_id == steps(run)[run.step_number].id
         run1 == [run EXCEPT !.steps_completed = Append(@, step_id)]
     IN  /\ jobs' = update_provisioning_job(jobs, run.job,
                 [NoArgs EXCEPT !.steps_completed = Some(<<step_id>>)])
         /\ runs' = [runs EXCEPT ![r] =
                 [ Emit(run1, ProvisioningEvent("step_completed", step_id,
                                                run.step_number, NULL, NULL))
                     EXCEPT !.pc = "loop" ]]

\* Lines 554-564: record the step as completed.
CompleteStep(r) ==
  /\ runs[r].pc = "complete"
  /\ UNCHANGED <<tenants, nstreams>>
  /\ response' = Nothing
  /\ \E ok \in BOOLEAN :
       LET run == runs[r]
           step_id == steps(run)[run.step_number].id
           run1 == [run EXCEPT !.steps_completed = Append(@, step_id)]
       IN
       IF ok
       THEN /\ jobs' = update_provisioning_job(jobs, run.job,
                 [NoArgs EXCEPT !.steps_completed = Some(run1.steps_completed)])
            /\ runs' = [runs EXCEPT ![r] =
                 [ Emit(run1, ProvisioningEvent("step_completed", step_id,
                                                run.step_number, NULL, NULL))
                     EXCEPT !.pc = "loop" ]]
       ELSE /\ runs' = [runs EXCEPT ![r] = Raise(run1, DbError, "job_store")]
            /\ UNCHANGED jobs

\* Lines 566-575: the loop is exhausted.
Finish(r) ==
  /\ runs[r].pc = "loop"
  /\ runs[r].step_number = Len(steps(runs[r]))
  /\ UNCHANGED <<tenants, nstreams>>
  /\ response' = Nothing
  /\ \E ok \in BOOLEAN :
       LET run == runs[r] IN
       IF ok
       THEN /\ jobs' = update_provisioning_job(jobs, run.job,
                 [NoArgs EXCEPT !.status = Some("completed"),
                                !.completed_at = Some(Now)])
            /\ runs' = [runs EXCEPT ![r] =
                 [ Emit(run, ProvisioningEvent("completed", NULL, 0,
                                               run.tenant_id, NULL))
                     EXCEPT !.pc = "done" ]]
       ELSE /\ runs' = [runs EXCEPT ![r] = Raise(run, DbError, "job_store")]
            /\ UNCHANGED jobs

\* The except clause emitting failed without persisting the failure first.
Except_emit_unpersisted(r) ==
  /\ runs[r].pc = "except"
  /\ UNCHANGED <<jobs, tenants, nstreams>>
  /\ response' = Nothing
  /\ runs' = [runs EXCEPT ![r] =
       [ Emit(runs[r], ProvisioningEvent("failed", NULL, 0, NULL, runs[r].error_msg))
           EXCEPT !.pc = "done" ]]

\* The except clause compensating: it clears steps_completed and removes the
\* tenant record.
Except_with_rollback(r) ==
  /\ runs[r].pc = "except"
  /\ UNCHANGED nstreams
  /\ response' = Nothing
  /\ \E ok \in BOOLEAN :
       LET run == runs[r]
           error_msg == run.error_msg
       IN
       IF ok
       THEN /\ jobs' = update_provisioning_job(jobs, run.job,
                 [NoArgs EXCEPT !.status = Some("failed"),
                                !.steps_completed = Some(<< >>),
                                !.error = Some(error_msg),
                                !.completed_at = Some(Now)])
            /\ tenants' = IF run.tenant_id \in DOMAIN tenants
                          THEN Delete(tenants, run.tenant_id) ELSE tenants
            /\ runs' = [runs EXCEPT ![r] =
                 [ Emit(run, ProvisioningEvent("failed", NULL, 0, NULL, error_msg))
                     EXCEPT !.pc = "done" ]]
       ELSE /\ runs' = [runs EXCEPT ![r] = Propagate(run, DbError)]
            /\ UNCHANGED <<jobs, tenants>>

\* Lines 577-588: the except clause.
Except(r) ==
  /\ runs[r].pc = "except"
  /\ UNCHANGED <<tenants, nstreams>>
  /\ response' = Nothing
  /\ \E ok \in BOOLEAN :
       LET run == runs[r]
           error_msg == run.error_msg
       IN
       IF ok
       THEN /\ jobs' = update_provisioning_job(jobs, run.job,
                 [NoArgs EXCEPT !.status = Some("failed"),
                                !.error = Some(error_msg),
                                !.completed_at = Some(Now)])
            /\ runs' = [runs EXCEPT ![r] =
                 [ Emit(run, ProvisioningEvent("failed", NULL, 0, NULL, error_msg))
                     EXCEPT !.pc = "done" ]]
       ELSE /\ runs' = [runs EXCEPT ![r] = Propagate(run, DbError)]
            /\ UNCHANGED jobs

----------------------------------------------------------------------------
\* server/routes.py

\* JSONResponse(body, status_code), kept with the request it answers.
JSONResponse(request, body, status_code) ==
  Some([request |-> request, body |-> body, status_code |-> status_code])

\* POST /admin/tenants/provision
admin_tenant_provision(name, tier, tenant_id) ==
  /\ UNCHANGED <<tenants, nstreams>>
  /\ LET request == [route |-> "provision", name |-> name, tier |-> tier,
                     tenant_id |-> tenant_id]
         job_id == Cardinality(DOMAIN jobs) + 1
         job == create_provisioning_job(job_id, name, tier, tenant_id)
     IN
     IF ~Truthy(name)
     THEN /\ response' = JSONResponse(request,
                           [error |-> "Missing required field: name"], 400)
          /\ UNCHANGED <<jobs, runs>>
     ELSE IF Truthy(tenant_id) /\ tenant_id \in DOMAIN tenants
     THEN /\ response' = JSONResponse(request,
                           [error |-> "Tenant already exists"], 409)
          /\ UNCHANGED <<jobs, runs>>
     ELSE /\ jobs' = Insert(jobs, job_id, job)
          /\ runs' = Append(runs, NewRun(job_id, "background"))
          /\ response' = JSONResponse(request,
                           [job_id |-> job.id, tenant_id |-> job.tenant_id,
                            tier |-> job.tier, status |-> "pending"], 202)

\* step_statuses reporting the current step as running whatever the job status.
step_statuses_running_any_status(job) ==
  LET job_steps == IF get_tier(job.tier) # Nothing
                   THEN get_provisioning_steps(Value(get_tier(job.tier)))
                   ELSE PROVISIONING_STEPS
  IN  [ i \in 1..Len(job_steps) |->
          [ id |-> job_steps[i].id,
            name |-> job_steps[i].name,
            status |->
              IF job_steps[i].id \in {job.steps_completed[k] : k \in 1..Len(job.steps_completed)}
              THEN "completed"
              ELSE IF job_steps[i].id \in {job.steps_skipped[k] : k \in 1..Len(job.steps_skipped)}
              THEN "skipped"
              ELSE IF i = job.current_step
              THEN "running"
              ELSE IF i < job.current_step
              THEN "completed"
              ELSE "pending" ] ]

\* The per-step status list of admin_provision_status.
step_statuses(job) ==
  LET job_steps == IF get_tier(job.tier) # Nothing
               THEN get_provisioning_steps(Value(get_tier(job.tier)))
               ELSE PROVISIONING_STEPS
  IN  [ i \in 1..Len(job_steps) |->
          [ id |-> job_steps[i].id,
            name |-> job_steps[i].name,
            status |->
              IF job_steps[i].id \in {job.steps_completed[k] : k \in 1..Len(job.steps_completed)}
              THEN "completed"
              ELSE IF job_steps[i].id \in {job.steps_skipped[k] : k \in 1..Len(job.steps_skipped)}
              THEN "skipped"
              ELSE IF i = job.current_step /\ job.status = "running"
              THEN "running"
              ELSE IF i < job.current_step
              THEN "completed"
              ELSE "pending" ] ]

\* The status route driving the engine on the job it reports, as the stream does.
admin_provision_status_driving(job_id) ==
  /\ UNCHANGED <<jobs, tenants, nstreams>>
  /\ runs' = IF job_id \in DOMAIN jobs /\ Len(runs) < MaxJobs + MaxStreams
             THEN Append(runs, NewRun(job_id, "direct")) ELSE runs
  /\ LET request == [route |-> "status", job_id |-> job_id] IN
     response' =
       IF job_id \notin DOMAIN jobs
       THEN JSONResponse(request, [error |-> "Job not found"], 404)
       ELSE JSONResponse(request,
              [job |-> jobs[job_id], steps |-> step_statuses(jobs[job_id])], 200)

\* GET /admin/tenants/provision/{job_id}
admin_provision_status(job_id) ==
  /\ UNCHANGED <<jobs, tenants, runs, nstreams>>
  /\ LET request == [route |-> "status", job_id |-> job_id] IN
     response' =
       IF job_id \notin DOMAIN jobs
       THEN JSONResponse(request, [error |-> "Job not found"], 404)
       ELSE JSONResponse(request,
              [job |-> jobs[job_id], steps |-> step_statuses(jobs[job_id])], 200)

\* generate_final replaying the step history before the terminal event.
generate_final_replay(job) ==
  [ i \in 1..Len(job.steps_completed) |->
      [type |-> "step_completed", step_id |-> job.steps_completed[i]] ]
  \o << IF job.status = "completed"
        THEN [type |-> "completed", tenant_id |-> job.tenant_id]
        ELSE [type |-> "failed", error |-> job.error] >>

\* generate_final: the one line sent for a job read as completed or failed.
generate_final(job) ==
  << IF job.status = "completed"
     THEN [type |-> "completed", tenant_id |-> job.tenant_id]
     ELSE [type |-> "failed", error |-> job.error] >>

\* admin_provision_stream without the lookup of the job: every id is streamed.
admin_provision_stream_unchecked(job_id) ==
  /\ nstreams < MaxStreams
  /\ nstreams' = nstreams + 1
  /\ UNCHANGED <<jobs, tenants>>
  /\ response' = JSONResponse([route |-> "stream", job_id |-> job_id],
                              [stream |-> Len(runs) + 1], 200)
  /\ runs' = Append(runs, NewRun(job_id, "stream"))

\* GET /admin/tenants/provision/{job_id}/stream
admin_provision_stream(job_id) ==
  /\ nstreams < MaxStreams
  /\ nstreams' = nstreams + 1
  /\ UNCHANGED <<jobs, tenants>>
  /\ LET request == [route |-> "stream", job_id |-> job_id] IN
     IF job_id \notin DOMAIN jobs
     THEN /\ response' = JSONResponse(request, [error |-> "Job not found"], 404)
          /\ UNCHANGED runs
     ELSE /\ response' = JSONResponse(request, [stream |-> Len(runs) + 1], 200)
          /\ runs' = Append(runs,
               IF jobs[job_id].status \in {"completed", "failed"}
               THEN [ NewRun(job_id, "final") EXCEPT
                        !.pc = "done", !.sent = generate_final(jobs[job_id]) ]
               ELSE NewRun(job_id, "stream"))

----------------------------------------------------------------------------
\* provisioning/tenant.py: tenant lifecycle

\* SELECT * FROM tenants WHERE tenant_id = :tenant_id
get_tenant(table, tenant_id) ==
  IF tenant_id \in DOMAIN table THEN Some(table[tenant_id]) ELSE Nothing

\* time.time() read by a call made after the record was created.
Later == "later"

\* dict.update: the keys of b are added to a or overwrite a's.
Merge(a, b) == [k \in DOMAIN a \cup DOMAIN b |-> IF k \in DOMAIN b THEN b[k] ELSE a[k]]

EmptyMap == [k \in {} |-> NULL]

\* Python truthiness of an optional dict: None and {} are false.
TruthyMap(opt) == opt # Nothing /\ Value(opt) # EmptyMap

\* Each method below is taken as one step: no other call runs between its
\* SELECT and its UPDATE or DELETE.  `returned` is the method's return value
\* and `table` the tenants table it leaves.

suspend_tenant_result(table, tenant_id) ==
  IF get_tenant(table, tenant_id) = Nothing
  THEN [returned |-> FALSE, table |-> table]
  ELSE [returned |-> TRUE,
        table |-> [table EXCEPT ![tenant_id].status = "suspended",
                                ![tenant_id].updated_at = Now]]

activate_tenant_result(table, tenant_id) ==
  IF get_tenant(table, tenant_id) = Nothing
  THEN [returned |-> FALSE, table |-> table]
  ELSE [returned |-> TRUE,
        table |-> [table EXCEPT ![tenant_id].status = "active",
                                ![tenant_id].updated_at = Now]]

\* delete_tenant ignoring soft_delete: the row is always removed.
delete_tenant_result_always_hard(table, tenant_id, soft_delete) ==
  IF get_tenant(table, tenant_id) = Nothing
  THEN [returned |-> FALSE, table |-> table]
  ELSE [returned |-> TRUE, table |-> Delete(table, tenant_id)]

delete_tenant_result(table, tenant_id, soft_delete) ==
  IF get_tenant(table, tenant_id) = Nothing
  THEN [returned |-> FALSE, table |-> table]
  ELSE [returned |-> TRUE,
        table |-> IF soft_delete
                  THEN [table EXCEPT ![tenant_id].status = "deleted",
                                     ![tenant_id].updated_at = Now]
                  ELSE Delete(table, tenant_id)]

\* name is NULL or a string; settings, limits and metadata are optional maps.
\* update_tenant replacing each stored map by the supplied one instead of merging.
update_tenant_result_replace(table, tenant_id, name, settings, limits, metadata) ==
  IF get_tenant(table, tenant_id) = Nothing
  THEN [returned |-> Nothing, table |-> table]
  ELSE LET config ==
             [ table[tenant_id] EXCEPT
                 !.name = IF Truthy(name) THEN name ELSE @,
                 !.settings = IF TruthyMap(settings) THEN Value(settings) ELSE @,
                 !.limits = IF TruthyMap(limits) THEN Value(limits) ELSE @,
                 !.metadata = IF TruthyMap(metadata) THEN Value(metadata) ELSE @,
                 !.updated_at = Later ]
       IN  [returned |-> Some(config),
            table |-> [table EXCEPT ![tenant_id] = config]]

update_tenant_result(table, tenant_id, name, settings, limits, metadata) ==
  IF get_tenant(table, tenant_id) = Nothing
  THEN [returned |-> Nothing, table |-> table]
  ELSE LET config ==
             [ table[tenant_id] EXCEPT
                 !.name = IF Truthy(name) THEN name ELSE @,
                 !.settings = IF TruthyMap(settings) THEN Merge(@, Value(settings)) ELSE @,
                 !.limits = IF TruthyMap(limits) THEN Merge(@, Value(limits)) ELSE @,
                 !.metadata = IF TruthyMap(metadata) THEN Merge(@, Value(metadata)) ELSE @,
                 !.updated_at = Later ]
       IN  [returned |-> Some(config),
            table |-> [table EXCEPT ![tenant_id].name = config.name,
                                    ![tenant_id].settings = config.settings,
                                    ![tenant_id].limits = config.limits,
                                    ![tenant_id].metadata = config.metadata,
                                    ![tenant_id].updated_at = config.updated_at]]

\* create_tenant with a caller-supplied tenant_id: the direct, one-call creation.
\* create_tenant without the existence check: the row is written over.
create_tenant_result_overwrite(table, name, tenant_id, tier) ==
  LET config ==
        [ tenant_id |-> tenant_id,
          name |-> name,
          status |-> "active",
          tier |-> IF tier \in DOMAIN TENANT_TIERS THEN tier ELSE "starter",
          settings |-> _default_settings,
          limits |-> get_tier_limits(tier),
          metadata |-> EmptyMap,
          created_at |-> Now,
          updated_at |-> Now ]
  IN  [returned |-> [tenant_id |-> tenant_id, config |-> config,
                     success |-> TRUE, message |-> "Tenant provisioned successfully"],
       table |-> [k \in DOMAIN table \cup {tenant_id} |->
                    IF k = tenant_id THEN config ELSE table[k]]]

create_tenant_result(table, name, tenant_id, tier) ==
  IF get_tenant(table, tenant_id) # Nothing
  THEN [returned |-> [tenant_id |-> tenant_id, config |-> Value(get_tenant(table, tenant_id)),
                      success |-> FALSE, message |-> "Tenant already exists"],
        table |-> table]
  ELSE LET config ==
             [ tenant_id |-> tenant_id,
               name |-> name,
               status |-> "active",
               tier |-> IF tier \in DOMAIN TENANT_TIERS THEN tier ELSE "starter",
               settings |-> _default_settings,
               limits |-> get_tier_limits(tier),
               metadata |-> EmptyMap,
               created_at |-> Now,
               updated_at |-> Now ]
       IN  [returned |-> [tenant_id |-> tenant_id, config |-> config,
                          success |-> TRUE, message |-> "Tenant provisioned successfully"],
            table |-> Insert(table, tenant_id, config)]

suspend_tenant(tenant_id) ==
  /\ tenants' = suspend_tenant_result(tenants, tenant_id).table
  /\ response' = Nothing
  /\ UNCHANGED <<jobs, runs, nstreams>>

activate_tenant(tenant_id) ==
  /\ tenants' = activate_tenant_result(tenants, tenant_id).table
  /\ response' = Nothing
  /\ UNCHANGED <<jobs, runs, nstreams>>

delete_tenant(tenant_id, soft_delete) ==
  /\ tenants' = delete_tenant_result(tenants, tenant_id, soft_delete).table
  /\ response' = Nothing
  /\ UNCHANGED <<jobs, runs, nstreams>>

update_tenant(tenant_id, name, settings, limits, metadata) ==
  /\ tenants' = update_tenant_result(tenants, tenant_id, name, settings, limits,
                                     metadata).table
  /\ response' = Nothing
  /\ UNCHANGED <<jobs, runs, nstreams>>

create_tenant(name, tenant_id, tier) ==
  /\ tenants' = create_tenant_result(tenants, name, tenant_id, tier).table
  /\ response' = Nothing
  /\ UNCHANGED <<jobs, runs, nstreams>>

----------------------------------------------------------------------------

\* Fewer than max provisioning requests have been accepted.
JobsBelow(max) == Cardinality(DOMAIN jobs) < max

Init ==
  /\ jobs = << >>
  /\ tenants = << >>
  /\ runs = << >>
  /\ nstreams = 0
  /\ response = Nothing

TenantKeys == {"t1", ""} \cup {Uuid(j) : j \in JobIds}

\* The control-plane requests and the steps of the runs they started.
Next ==
  \/ \E name \in NameInputs, tier \in TierInputs, tenant_id \in TenantIdInputs :
       JobsBelow(MaxJobs) /\ admin_tenant_provision(name, tier, tenant_id)
  \/ \E job_id \in JobIdInputs : admin_provision_stream(job_id)
  \/ \E r \in 1..Len(runs) : Begin(r)
  \/ \E r \in 1..Len(runs) : StartStep(r)
  \/ \E r \in 1..Len(runs) : ExecStep(r)
  \/ \E r \in 1..Len(runs) : CompleteStep(r)
  \/ \E r \in 1..Len(runs) : Finish(r)
  \/ \E r \in 1..Len(runs) : Except(r)

Spec == Init /\ [][Next]_vars

\* No statement on provisioning_jobs has raised.
JobStoreUp == \A r \in 1..Len(runs) : runs[r].raised_in # "job_store"

\* The same system while provisioning_jobs accepts every statement: step
\* handlers still raise.
NextJobStoreUp == Next /\ JobStoreUp'

SpecJobStoreUp == Init /\ [][NextJobStoreUp]_vars

\* No store has raised: the only exception left is the primary-key conflict.
FaultFree == \A r \in 1..Len(runs) : runs[r].error_msg \in {NULL, UniqueError}

NextFaultFree == Next /\ FaultFree'

\* The tenant lifecycle operations of TenantManager.
Lifecycle ==
  \/ \E tenant_id \in TenantKeys : suspend_tenant(tenant_id)
  \/ \E tenant_id \in TenantKeys : activate_tenant(tenant_id)
  \/ \E tenant_id \in TenantKeys, soft_delete \in BOOLEAN :
       delete_tenant(tenant_id, soft_delete)

\* Provisioning with the lifecycle operations running beside it, the stores up.
NextLifecycle == NextFaultFree \/ Lifecycle

SpecLifecycle == Init /\ [][NextLifecycle]_vars

\* Provisioning requests against tenants that direct creation made beforehand,
\* the stores up.
NextRequests ==
  \/ NextFaultFree
  \/ \E name \in TenantNames, tenant_id \in TenantIdInputs \ {NULL} :
       create_tenant(name, tenant_id, "starter")

SpecRequests == Init /\ [][NextRequests]_vars

\* The three provisioning routes, with tenants hard-deleted beside them, the
\* stores up.
NextStatus ==
  \/ NextFaultFree
  \/ \E job_id \in JobIdInputs : admin_provision_status(job_id)
  \/ \E tenant_id \in TenantKeys : delete_tenant(tenant_id, FALSE)

SpecStatus == Init /\ [][NextStatus]_vars

\* Arguments of the tenant operations.
TenantOpKeys == TenantIdInputs \ {NULL}
NewNameInputs == {NULL, "Acme Ltd"}
SettingsInputs == {Nothing, Some(EmptyMap), Some([theme |-> "dark"]), Some([auth_mode |-> "sso"])}
LimitsInputs == {Nothing, Some([max_users |-> 5])}
MetadataInputs == {Nothing, Some([owner |-> "ops"])}

\* The tenant operations of TenantManager called one after another, no job.
NextTenants ==
  \/ \E name \in TenantNames, tenant_id \in TenantOpKeys, tier \in {"starter", "bogus"} :
       create_tenant(name, tenant_id, tier)
  \/ \E tenant_id \in TenantOpKeys, name \in NewNameInputs, settings \in SettingsInputs,
        limits \in LimitsInputs, metadata \in MetadataInputs :
       update_tenant(tenant_id, name, settings, limits, metadata)
  \/ \E tenant_id \in TenantOpKeys : suspend_tenant(tenant_id)
  \/ \E tenant_id \in TenantOpKeys : activate_tenant(tenant_id)
  \/ \E tenant_id \in TenantOpKeys, soft_delete \in BOOLEAN :
       delete_tenant(tenant_id, soft_delete)

SpecTenants == Init /\ [][NextTenants]_vars

\* Provisioning driven by the background task alone: no status or stream request.
NextBackground ==
  \/ \E name \in NameInputs, tier \in TierInputs, tenant_id \in TenantIdInputs :
       JobsBelow(MaxJobs) /\ admin_tenant_provision(name, tier, tenant_id)
  \/ \E r \in 1..Len(runs) : Begin(r)
  \/ \E r \in 1..Len(runs) : StartStep(r)
  \/ \E r \in 1..Len(runs) : ExecStep(r)
  \/ \E r \in 1..Len(runs) : CompleteStep(r)
  \/ \E r \in 1..Len(runs) : Finish(r)
  \/ \E r \in 1..Len(runs) : Except(r)

\* One statement of some run: what the event loop does when it schedules a task.
RunStep ==
  \E r \in 1..Len(runs) :
    Begin(r) \/ StartStep(r) \/ ExecStep(r) \/ CompleteStep(r) \/ Finish(r) \/ Except(r)

\* The event loop runs every task that is ready.
SpecBackgroundFair == Init /\ [][NextBackground]_vars /\ WF_vars(RunStep)

\* Several provisioning requests and their background runs, the stores up:
\* requests for one tenant_id are accepted while no run has inserted its row.
NextRace ==
  /\ \/ \E name \in NameInputs, tier \in TierInputs, tenant_id \in TenantIdInputs :
          JobsBelow(MaxRaceJobs) /\ admin_tenant_provision(name, tier, tenant_id)
     \/ RunStep
  /\ FaultFree'

SpecRace == Init /\ [][NextRace]_vars

\* A direct call of the engine by a user of TenantManager, for any job id.
provision_tenant_with_progress(job_id) ==
  /\ Len(runs) < MaxJobs + MaxStreams
  /\ runs' = Append(runs, NewRun(job_id, "direct"))
  /\ response' = Nothing
  /\ UNCHANGED <<jobs, tenants, nstreams>>

\* The background task and direct calls of the engine, the stores up.
NextEngine ==
  \/ NextBackground /\ FaultFree'
  \/ \E job_id \in JobIdInputs : provision_tenant_with_progress(job_id)

SpecEngine == Init /\ [][NextEngine]_vars

----------------------------------------------------------------------------
\* Properties of the provisioning job state machine and of the engine.

Range(seq) == {seq[i] : i \in 1..Len(seq)}

\* The run r writes status = completed in this step: its final statement.
Succeeds(r) == runs[r].pc = "loop" /\ runs'[r].pc = "done"

\* The run r leaves its except clause in this step.
Handles(r) == runs[r].pc = "except" /\ runs'[r].pc # "except"

\* The run r ended with the event `completed`.
Succeeded(r) ==
  /\ runs[r].kind # "final"
  /\ runs[r].pc = "done"
  /\ runs[r].events # << >>
  /\ runs[r].events[Len(runs[r].events)].type = "completed"

AllowedStatusChange(old, new) ==
  \/ old = new
  \/ <<old, new>> \in { <<"pending", "running">>, <<"running", "completed">>,
                        <<"running", "failed">> }

\* C1: the persisted status of a job only changes pending -> running,
\* running -> completed or running -> failed; no write of any run, a run driven
\* by the stream endpoint included, changes a completed or failed status.
C1_StatusTransitions ==
  [][ \A j \in DOMAIN jobs :
        AllowedStatusChange(jobs[j].status, jobs'[j].status) ]_vars

\* C2: in every persisted state of a job,
\* len(steps_completed) + len(steps_skipped) <= current_step <= total_steps.
C2_StepCounters ==
  \A j \in DOMAIN jobs :
    /\ Len(jobs[j].steps_completed) + Len(jobs[j].steps_skipped) <= jobs[j].current_step
    /\ jobs[j].current_step <= jobs[j].total_steps

\* C3: whenever the persisted status of a job is completed,
\* len(steps_completed) + len(steps_skipped) = total_steps.
C3_CompletedCountsAll ==
  \A j \in DOMAIN jobs :
    jobs[j].status = "completed" =>
      Len(jobs[j].steps_completed) + Len(jobs[j].steps_skipped) = jobs[j].total_steps

\* C4: in every persisted state of a job, error is non-null exactly when the
\* status is failed.
C4_ErrorIffFailed ==
  \A j \in DOMAIN jobs : (jobs[j].error # NULL) <=> (jobs[j].status = "failed")

\* C5: across all writes of all runs of a job, the persisted current_step never
\* decreases and never exceeds total_steps.
C5_CurrentStepMonotone ==
  [][ \A j \in DOMAIN jobs :
        /\ jobs'[j].current_step >= jobs[j].current_step
        /\ jobs'[j].current_step <= jobs'[j].total_steps ]_vars

\* The four steps the starter tier does not run.
StarterExcluded ==
  {"provision_database", "update_bindings", "deploy_worker", "configure_domain"}

C7_EnterpriseAllThirteen ==
  /\ [](/\ get_provisioning_steps(TENANT_TIERS["enterprise"]) = PROVISIONING_STEPS
        /\ Len(PROVISIONING_STEPS) = 13
        /\ Cardinality(Range(StepIds(PROVISIONING_STEPS))) = 13)
  /\ [][ \A r \in 1..Len(runs) :
           (Succeeds(r) /\ runs[r].tier = "enterprise") =>
             /\ jobs'[runs[r].job].status = "completed"
             /\ jobs'[runs[r].job].steps_skipped = << >>
             /\ runs'[r].steps_skipped = << >>
             /\ runs'[r].steps_completed = StepIds(PROVISIONING_STEPS)
             /\ runs'[r].handlers = StepIds(PROVISIONING_STEPS) ]_vars

\* A run of an enterprise job has ended with the event completed.
C7_Witness ==
  \E r \in 1..Len(runs) : Succeeded(r) /\ runs[r].tier = "enterprise"

FailedEvents(run) == {i \in 1..Len(run.events) : run.events[i].type = "failed"}

\* C8: when a step handler raises, the run persists status = failed,
\* error = str(exception) and completed_at, emits exactly one failed event, which
\* carries that error, and executes the handler of no later step.
C8_HandlerFailure ==
  /\ [][ \A r \in 1..Len(runs) :
           (Handles(r) /\ runs[r].raised_in = "handler") =>
             /\ jobs'[runs[r].job].status = "failed"
             /\ jobs'[runs[r].job].error = runs[r].error_msg
             /\ jobs'[runs[r].job].completed_at # NULL
             /\ runs'[r].pc = "done"
             /\ runs'[r].events =
                  Append(runs[r].events,
                         ProvisioningEvent("failed", NULL, 0, NULL, runs[r].error_msg))
             /\ FailedEvents(runs[r]) = {} ]_vars
  /\ [][ \A r \in 1..Len(runs) :
           runs[r].raised_in = "handler" =>
             /\ runs'[r].handlers = runs[r].handlers
             /\ runs'[r].step_number = runs[r].step_number
             /\ runs[r].pc = "done" => runs'[r] = runs[r] ]_vars
  /\ [](\A r \in 1..Len(runs) :
           (runs[r].raised_in = "handler" /\ runs[r].pc = "done") =>
             /\ Cardinality(FailedEvents(runs[r])) = 1
             /\ Len(runs[r].handlers) = runs[r].step_number)

\* C9: for every exception a step handler raises mid-run, the failed job that
\* results has current_step_name equal to the name of the step whose handler
\* raised, and a non-empty persisted error text.
C9_FailedJobNamesStep ==
  [][ \A r \in 1..Len(runs) :
        (Handles(r) /\ runs[r].raised_in = "handler" /\ runs'[r].pc = "done") =>
          /\ jobs'[runs[r].job].status = "failed"
          /\ jobs'[runs[r].job].current_step_name =
               steps(runs[r])[runs[r].step_number].name
          /\ jobs'[runs[r].job].error \notin {NULL, ""} ]_vars

\* C10: no exception raised while a run executes reaches the consumer of the
\* engine: every failure becomes persisted status = failed and a failed event.
C10_NoExceptionEscapes ==
  \A r \in 1..Len(runs) :
    /\ runs[r].pc # "crashed"
    /\ (runs[r].kind # "final" /\ runs[r].raised_in # NULL /\ runs[r].pc = "done") =>
         runs[r].events[Len(runs[r].events)].type = "failed"

\* The handler of the current step of run r has been called and has not returned.
HandlerInProgress(r) == runs[r].pc = "exec"

\* C11: at any moment at most one step handler invocation is in progress for a
\* job id, and the handlers of a job start strictly in step order, whatever runs
\* the background task and the stream requests have started for it.
C11_HandlersSerial ==
  /\ [](\A r1, r2 \in 1..Len(runs) :
          (r1 # r2 /\ runs[r1].job = runs[r2].job /\ HandlerInProgress(r1)) =>
            ~HandlerInProgress(r2))
  /\ [][ \A r, r2 \in 1..Len(runs) :
           ( /\ Len(runs'[r].handlers) > Len(runs[r].handlers)
             /\ r2 # r
             /\ runs[r2].job = runs[r].job ) =>
             Len(runs[r2].handlers) < Len(runs'[r].handlers) ]_vars

\* The step just taken answered a stream request for job j with a stream.
StreamOpened(j) ==
  /\ nstreams' = nstreams + 1
  /\ \E resp \in response' :
       /\ resp.request.route = "stream"
       /\ resp.request.job_id = j
       /\ resp.status_code = 200

\* C12: a stream request for a job whose persisted status is completed or failed
\* sends exactly one line, the terminal event of that status (completed with the
\* tenant id, failed with the stored error), and ends: no step event is sent, no
\* step handler runs, no row changes.
C12_TerminalStreamOneEvent ==
  /\ [][ \A j \in DOMAIN jobs :
           (StreamOpened(j) /\ jobs[j].status \in {"completed", "failed"}) =>
             /\ Len(runs') = Len(runs) + 1
             /\ runs'[Len(runs')].kind = "final"
             /\ runs'[Len(runs')].sent =
                  << IF jobs[j].status = "completed"
                     THEN [type |-> "completed", tenant_id |-> jobs[j].tenant_id]
                     ELSE [type |-> "failed", error |-> jobs[j].error] >>
             /\ jobs[j].status = "failed" => jobs[j].error # NULL
             /\ jobs' = jobs
             /\ tenants' = tenants ]_vars
  /\ [][ \A r \in 1..Len(runs) : runs[r].kind = "final" => runs'[r] = runs[r] ]_vars
  /\ [](\A r \in 1..Len(runs) :
          runs[r].kind = "final" =>
            /\ Len(runs[r].sent) = 1
            /\ runs[r].sent[1].type \in {"completed", "failed"}
            /\ runs[r].handlers = << >>
            /\ runs[r].events = << >>
            /\ runs[r].pc = "done")

\* A stream request found the job failed and sent its one event.
C12_Witness ==
  \E r \in 1..Len(runs) :
    /\ runs[r].kind = "final"
    /\ runs[r].sent[1].type = "failed"
    /\ runs[r].sent[1].error = jobs[runs[r].job].error

Terminal == {"completed", "failed"}

\* The generator of run r has ended: it returned or an exception left it.
Ended(r) == runs[r].pc \in {"done", "crashed"}

\* C13: for a run the stream endpoint drives on an existing job, the lines sent
\* to the caller are the events the engine emitted, in emission order; the step
\* numbers of the step_started events are strictly increasing; every
\* step_completed for step n is immediately preceded by step_started for step n;
\* and the sequence ends with exactly one terminal event (completed or failed),
\* after which nothing is emitted.
C13_StreamEventOrder ==
  /\ [](\A r \in 1..Len(runs) :
          runs[r].kind = "stream" =>
            LET sent == runs[r].sent
                events == runs[r].events
            IN
            /\ Len(sent) = Len(events)
            /\ \A i \in 1..Len(sent) :
                 /\ sent[i].type = events[i].type
                 /\ sent[i].type \notin Terminal =>
                      /\ sent[i].step_number = events[i].step_number
                      /\ sent[i].step_id = events[i].step_id
            /\ \A i, k \in 1..Len(sent) :
                 (i < k /\ sent[i].type = "step_started" /\ sent[k].type = "step_started")
                   => sent[i].step_number < sent[k].step_number
            /\ \A i \in 1..Len(sent) :
                 sent[i].type = "step_completed" =>
                   /\ i > 1
                   /\ sent[i - 1].type = "step_started"
                   /\ sent[i - 1].step_number = sent[i].step_number
            /\ \A i \in 1..Len(sent) : sent[i].type \in Terminal => i = Len(sent)
            /\ Ended(r) =>
                 /\ sent # << >>
                 /\ sent[Len(sent)].type \in Terminal)
  /\ [][ \A r \in 1..Len(runs) :
           (runs[r].kind = "stream" /\ Ended(r)) => runs'[r].sent = runs[r].sent ]_vars

\* C14: a provisioning request (with a name) whose caller-supplied tenant_id
\* already exists is answered 409 before any job is created: no row is added to
\* provisioning_jobs and no run is started; every other request with a name is
\* answered 202 with the new job's id, tenant_id, tier and status pending.
C14_ConflictBeforeJob ==
  [][ \A resp \in response' :
        (resp.request.route = "provision" /\ Truthy(resp.request.name)) =>
          IF /\ resp.request.tenant_id # NULL
             /\ resp.request.tenant_id \in DOMAIN tenants
          THEN /\ resp.status_code = 409
               /\ jobs' = jobs
               /\ runs' = runs
          ELSE /\ resp.status_code = 202
               /\ resp.body.job_id \in DOMAIN jobs' \ DOMAIN jobs
               /\ resp.body.tenant_id = jobs'[resp.body.job_id].tenant_id
               /\ resp.body.tier = jobs'[resp.body.job_id].tier
               /\ resp.body.status = "pending"
               /\ jobs'[resp.body.job_id].status = "pending"
               /\ Len(runs') = Len(runs) + 1 ]_vars

\* C15: create_provisioning_job stores the resolved tier (the given tier id if it
\* is in the registry, otherwise starter) and inserts a job with status pending,
\* current_step 0, empty steps_completed and steps_skipped, and total_steps equal
\* to len(get_provisioning_steps(resolved tier)); every run of the job iterates
\* a step list of exactly that length.
C15_JobCreation ==
  /\ [][ \A resp \in response' :
           (resp.request.route = "provision" /\ resp.status_code = 202) =>
             LET job == jobs'[resp.body.job_id]
                 resolved == IF resp.request.tier \in {"starter", "pro", "enterprise"}
                             THEN resp.request.tier ELSE "starter"
             IN
             /\ job.tier = resolved
             /\ job.status = "pending"
             /\ job.current_step = 0
             /\ job.steps_completed = << >>
             /\ job.steps_skipped = << >>
             /\ job.total_steps = Len(get_provisioning_steps(TENANT_TIERS[resolved])) ]_vars
  /\ [](\A r \in 1..Len(runs) :
          runs[r].tier # NULL =>
            /\ Len(steps(runs[r])) = jobs[runs[r].job].total_steps
            /\ runs[r].step_number <= jobs[runs[r].job].total_steps)

\* A request naming a tier that is not in the registry was accepted and its job
\* stored as starter.
C15_Witness ==
  \E resp \in response :
    /\ resp.request.route = "provision"
    /\ resp.request.tier = "bogus"
    /\ resp.status_code = 202
    /\ jobs[resp.body.job_id].tier = "starter"
    /\ jobs[resp.body.job_id].total_steps = 9

\* The position of a step id in the master list.
MasterIndex(id) == CHOOSE i \in 1..Len(PROVISIONING_STEPS) : PROVISIONING_STEPS[i].id = id

\* The inclusion condition as the specification words it.
Included(tier, step) ==
  /\ \/ step.required_infra = NULL
     \/ tier.infra.storage = "dedicated"
     \/ tier.infra.database = "dedicated"
  /\ \/ step.required_feature = NULL
     \/ step.required_feature \in tier.features

\* C16: for every tier of the registry, get_provisioning_steps returns exactly
\* the steps of the master list that (have no required_infra, or the tier's
\* storage or database is dedicated) and (have no required_feature, or the tier
\* has that feature), in master order and without repetition; the list depends
\* on the tier only, so every call for a job's tier returns the same list.
C16_FilterIsSubsequence ==
  /\ [](\A tier_id \in DOMAIN TENANT_TIERS :
          LET tier == TENANT_TIERS[tier_id]
              res == get_provisioning_steps(tier)
          IN
          /\ Range(res) = {step \in Range(PROVISIONING_STEPS) : Included(tier, step)}
          /\ \A i, k \in 1..Len(res) :
               i < k => MasterIndex(res[i].id) < MasterIndex(res[k].id))
  /\ [](\A r \in 1..Len(runs) :
          runs[r].tier # NULL =>
            /\ Range(steps(runs[r])) =
                 {step \in Range(PROVISIONING_STEPS) :
                    Included(TENANT_TIERS[jobs[runs[r].job].tier], step)}
            /\ \A r2 \in 1..Len(runs) :
                 (runs[r2].tier # NULL /\ runs[r2].job = runs[r].job) =>
                   steps(runs[r2]) = steps(runs[r]))

\* Two runs of a pro job have both computed the step list: twelve steps, the
\* dedicated-infrastructure ones included, configure_domain left out.
C16_Witness ==
  \E r, r2 \in 1..Len(runs) :
    /\ r # r2
    /\ runs[r].tier = "pro"
    /\ runs[r2].tier = "pro"
    /\ Len(steps(runs[r])) = 12
    /\ "deploy_worker" \in Range(StepIds(steps(runs[r])))
    /\ "configure_domain" \notin Range(StepIds(steps(runs[r])))

\* C17: after an accepted provisioning request the job eventually reaches status
\* completed or failed with no status or stream request made, every handler
\* returning or raising and the background task being scheduled fairly.
C17_BackgroundTerminates ==
  \A j \in JobIds :
    (j \in DOMAIN jobs) ~> (j \in DOMAIN jobs /\ jobs[j].status \in {"completed", "failed"})

\* A run of job j failed on the final step of its list.
FailedOnFinalStep(j) ==
  \E r \in 1..Len(runs) :
    /\ runs[r].job = j
    /\ runs[r].error_msg # NULL
    /\ runs[r].tier # NULL
    /\ runs[r].step_number = Len(steps(runs[r]))

\* C18: for a failed job, len(steps_completed) + len(steps_skipped) < total_steps
\* unless the failure occurred on the final step.
C18_FailedCountsBelowTotal ==
  \A j \in DOMAIN jobs :
    jobs[j].status = "failed" =>
      \/ Len(jobs[j].steps_completed) + Len(jobs[j].steps_skipped) < jobs[j].total_steps
      \/ FailedOnFinalStep(j)

\* The status of step n of a job as the specification derives it.
DerivedStepStatus(job, n, id) ==
  CASE id \in Range(job.steps_completed) -> "completed"
    [] id \notin Range(job.steps_completed) /\ id \in Range(job.steps_skipped) -> "skipped"
    [] /\ id \notin Range(job.steps_completed) \cup Range(job.steps_skipped)
       /\ n = job.current_step
       /\ job.status = "running" -> "running"
    [] /\ id \notin Range(job.steps_completed) \cup Range(job.steps_skipped)
       /\ ~(n = job.current_step /\ job.status = "running")
       /\ n < job.current_step -> "completed"
    [] OTHER -> "pending"

\* C19: the status route reports, for the step at 1-based position n of the
\* filtered list of the job's tier: completed if its id is in steps_completed;
\* else skipped if its id is in steps_skipped; else running if n = current_step
\* and the job status is running; else completed if n < current_step; else
\* pending.
C19_DerivedStepStatus ==
  [][ \A resp \in response' :
        (resp.request.route = "status" /\ resp.status_code = 200) =>
          LET job == jobs[resp.request.job_id]
              filtered == get_provisioning_steps(TENANT_TIERS[job.tier])
          IN
          /\ resp.body.job = job
          /\ Len(resp.body.steps) = Len(filtered)
          /\ \A n \in 1..Len(filtered) :
               /\ resp.body.steps[n].id = filtered[n].id
               /\ resp.body.steps[n].name = filtered[n].name
               /\ resp.body.steps[n].status = DerivedStepStatus(job, n, filtered[n].id) ]_vars

\* A status response in which a step reads completed by its position alone: its
\* id is in neither list and it lies before current_step.
C19_Witness ==
  \E resp \in response :
    /\ resp.request.route = "status"
    /\ resp.status_code = 200
    /\ \E n \in 1..Len(resp.body.steps) :
         /\ resp.body.steps[n].status = "completed"
         /\ resp.body.steps[n].id \notin Range(resp.body.job.steps_completed)
         /\ n < resp.body.job.current_step

\* C20: a status or stream request for a job id that has no row in
\* provisioning_jobs is answered 404 as a response value, and creates no job row,
\* changes no tenant record and starts no run.
C20_UnknownJobNotFound ==
  [][ \A resp \in response' :
        ( /\ resp.request.route \in {"status", "stream"}
          /\ resp.request.job_id \notin DOMAIN jobs ) =>
          /\ resp.status_code = 404
          /\ resp.body = [error |-> "Job not found"]
          /\ jobs' = jobs
          /\ tenants' = tenants
          /\ runs' = runs ]_vars

\* A stream request for an unknown job id was answered 404 while another job
\* was being provisioned.
C20_Witness ==
  \E resp \in response :
    /\ resp.request.route = "stream"
    /\ resp.request.job_id \notin DOMAIN jobs
    /\ resp.status_code = 404
    /\ \E r \in 1..Len(runs) : runs[r].pc = "exec"

JobNotFound == ProvisioningEvent("failed", NULL, 0, NULL, "Job not found")

\* C21: the engine run on a job id that has no row emits exactly one event,
\* failed with error "Job not found", and stops: it writes neither
\* provisioning_jobs nor tenants and executes no step handler.
C21_JobNotFound ==
  /\ [][ \A r \in 1..Len(runs) :
           ( /\ runs[r].pc = "begin"
             /\ runs'[r] # runs[r]
             /\ runs[r].job \notin DOMAIN jobs ) =>
             /\ runs'[r].pc = "done"
             /\ runs'[r].events = <<JobNotFound>>
             /\ runs'[r].handlers = << >>
             /\ jobs' = jobs
             /\ tenants' = tenants ]_vars
  /\ [][ \A r \in 1..Len(runs) :
           (runs[r].pc = "done" /\ runs[r].events = <<JobNotFound>>) =>
             runs'[r] = runs[r] ]_vars

\* A direct call of the engine for an unknown job id has ended with its one event.
C21_Witness ==
  \E r \in 1..Len(runs) :
    /\ runs[r].job \notin DOMAIN jobs
    /\ runs[r].pc = "done"
    /\ runs[r].events = <<JobNotFound>>

\* The run r has failed in the handler of a step after create_record.
FailedAfterCreateRecord(r) ==
  /\ runs[r].pc = "done"
  /\ runs[r].raised_in = "handler"
  /\ runs[r].step_number > 1

FinalizeReturned(r) ==
  \/ "finalize" \in Range(runs[r].steps_completed)
  \/ /\ runs[r].pc = "complete"
     /\ runs[r].handlers # << >>
     /\ runs[r].handlers[Len(runs[r].handlers)] = "finalize"

\* C23: with no lifecycle operation on the tenant, a tenant record the
\* orchestrator created has status provisioning from the create_record step
\* until the finalize step of its job, active after it, and at the moment the
\* persisted status of the job becomes completed the record exists with status
\* active and limits equal to get_tier_limits(job.tier).
C23_TenantStatusDuringRun ==
  /\ [](\A t \in DOMAIN tenants :
          /\ tenants[t].status \in {"provisioning", "active"}
          /\ tenants[t].status = "active" <=>
               \E r \in 1..Len(runs) : runs[r].tenant_id = t /\ FinalizeReturned(r))
  /\ [][ \A j \in DOMAIN jobs :
           (jobs[j].status # "completed" /\ jobs'[j].status = "completed") =>
             /\ jobs[j].tenant_id \in DOMAIN tenants'
             /\ tenants'[jobs[j].tenant_id].status = "active"
             /\ tenants'[jobs[j].tenant_id].limits = get_tier_limits(jobs[j].tier)
             /\ tenants'[jobs[j].tenant_id].tier = jobs[j].tier ]_vars

\* A pro job is completed and its tenant is active with the pro limits.
C23_Witness ==
  \E j \in DOMAIN jobs :
    /\ jobs[j].status = "completed"
    /\ jobs[j].tier = "pro"
    /\ jobs[j].tenant_id \in DOMAIN tenants
    /\ tenants[jobs[j].tenant_id].status = "active"
    /\ tenants[jobs[j].tenant_id].limits.max_users = 100

\* The rows other than tenant_id are the same before and after the step.
OtherTenantsUnchanged(tenant_id) ==
  /\ DOMAIN tenants' \ {tenant_id} = DOMAIN tenants \ {tenant_id}
  /\ \A k \in DOMAIN tenants \ {tenant_id} : tenants'[k] = tenants[k]

\* The row of tenant_id is kept but for its status and updated_at.
StatusSetTo(tenant_id, status) ==
  /\ get_tenant(tenants', tenant_id) # Nothing
  /\ tenants'[tenant_id].status = status
  /\ [tenants'[tenant_id] EXCEPT !.status = "", !.updated_at = ""] =
       [tenants[tenant_id] EXCEPT !.status = "", !.updated_at = ""]
  /\ OtherTenantsUnchanged(tenant_id)

\* C24: suspend_tenant, activate_tenant and delete_tenant return False and leave
\* the tenant store unchanged when the tenant id is absent; on an existing tenant
\* they return True and set status to suspended, active and (soft delete)
\* deleted, the record staying retrievable, while a hard delete removes the
\* record, so that get_tenant returns None.
C24_LifecycleResults ==
  [][ \A t \in TenantOpKeys :
        /\ suspend_tenant(t) =>
             IF t \notin DOMAIN tenants
             THEN ~suspend_tenant_result(tenants, t).returned /\ tenants' = tenants
             ELSE suspend_tenant_result(tenants, t).returned /\ StatusSetTo(t, "suspended")
        /\ activate_tenant(t) =>
             IF t \notin DOMAIN tenants
             THEN ~activate_tenant_result(tenants, t).returned /\ tenants' = tenants
             ELSE activate_tenant_result(tenants, t).returned /\ StatusSetTo(t, "active")
        /\ delete_tenant(t, TRUE) =>
             IF t \notin DOMAIN tenants
             THEN ~delete_tenant_result(tenants, t, TRUE).returned /\ tenants' = tenants
             ELSE delete_tenant_result(tenants, t, TRUE).returned /\ StatusSetTo(t, "deleted")
        /\ delete_tenant(t, FALSE) =>
             IF t \notin DOMAIN tenants
             THEN ~delete_tenant_result(tenants, t, FALSE).returned /\ tenants' = tenants
             ELSE /\ delete_tenant_result(tenants, t, FALSE).returned
                  /\ get_tenant(tenants', t) = Nothing
                  /\ OtherTenantsUnchanged(t) ]_vars

\* One tenant has been suspended and another soft-deleted; both are retrievable.
C24_Witness ==
  \E t1, t2 \in DOMAIN tenants :
    /\ tenants[t1].status = "suspended"
    /\ tenants[t2].status = "deleted"

\* The map an optional argument contributes to a merge: None contributes nothing.
Supplied(opt) == IF opt = Nothing THEN EmptyMap ELSE Value(opt)

\* new is old with the supplied keys added or overwritten and the rest preserved.
Merged(old, supplied, new) ==
  /\ DOMAIN new = DOMAIN old \cup DOMAIN supplied
  /\ \A k \in DOMAIN supplied : new[k] = supplied[k]
  /\ \A k \in DOMAIN old \ DOMAIN supplied : new[k] = old[k]

\* The table after a call is the table before it but for the row of tenant_id.
OtherRowsKept(before, after, tenant_id) ==
  /\ DOMAIN after = DOMAIN before
  /\ \A k \in DOMAIN before \ {tenant_id} : after[k] = before[k]

\* What update_tenant returns and writes, called on the current tenant store.
UpdateMerges(t, name, s, l, m) ==
  LET res == update_tenant_result(tenants, t, name, s, l, m)
  IN  IF t \notin DOMAIN tenants
      THEN res.returned = Nothing /\ res.table = tenants
      ELSE /\ res.returned = Some(res.table[t])
           /\ Merged(tenants[t].settings, Supplied(s), res.table[t].settings)
           /\ Merged(tenants[t].limits, Supplied(l), res.table[t].limits)
           /\ Merged(tenants[t].metadata, Supplied(m), res.table[t].metadata)
           /\ res.table[t].updated_at = Later
           /\ res.table[t].tenant_id = tenants[t].tenant_id
           /\ res.table[t].status = tenants[t].status
           /\ res.table[t].tier = tenants[t].tier
           /\ res.table[t].created_at = tenants[t].created_at
           /\ OtherRowsKept(tenants, res.table, t)

\* C25: update_tenant on an existing tenant merges the supplied settings, limits
\* and metadata into the stored maps (keys not supplied are preserved, supplied
\* keys are added or overwritten), sets updated_at to the time of the call and
\* leaves tenant_id, status, tier and created_at unchanged; on an absent tenant
\* it returns None and writes nothing.  Stated of every call that can be made
\* on a reachable tenant store.
C25_UpdateMerges ==
  \A t \in TenantOpKeys, name \in NewNameInputs, s \in SettingsInputs,
     l \in LimitsInputs, m \in MetadataInputs :
    UpdateMerges(t, name, s, l, m)

\* An updated tenant: a key was added to settings and the default one preserved,
\* a tier limit was overwritten and the other limits preserved.
C25_Witness ==
  \E t \in DOMAIN tenants :
    /\ tenants[t].updated_at = Later
    /\ tenants[t].created_at = Now
    /\ tenants[t].settings = [auth_mode |-> "builtin", theme |-> "dark"]
    /\ tenants[t].limits.max_users = 5
    /\ tenants[t].limits.storage_mb = get_tier_limits(tenants[t].tier).storage_mb
    /\ tenants[t].metadata = [owner |-> "ops"]

\* C26: create_tenant with a tenant_id that already has a record returns a result
\* with success False and the message that the tenant already exists, and leaves
\* the tenant store as it was: the existing record keeps its name, status, tier,
\* settings and limits, and no record is added.
C26_DuplicateCreateRefused ==
  \A t \in DOMAIN tenants, name \in TenantNames, tier \in {"starter", "pro", "bogus"} :
    LET res == create_tenant_result(tenants, name, t, tier)
    IN  /\ res.returned.success = FALSE
        /\ res.returned.message = "Tenant already exists"
        /\ res.returned.tenant_id = t
        /\ res.returned.config = tenants[t]
        /\ res.table = tenants

\* A record that differs from what any create_tenant call would write exists,
\* and a create_tenant call for its id is refused.
C26_Witness ==
  \E t \in DOMAIN tenants :
    /\ tenants[t].status = "suspended"
    /\ tenants[t].limits.max_users = 5
    /\ ~create_tenant_result(tenants, "Acme", t, "pro").returned.success

\* The run r emits an event in this step.
Emits(r) == Len(runs'[r].events) = Len(runs[r].events) + 1

\* The event the run r emits in this step.
Emitted(r) == runs'[r].events[Len(runs'[r].events)]

\* The name of the step with the given id in the master list.
MasterName(step_id) ==
  (CHOOSE s \in Range(PROVISIONING_STEPS) : s.id = step_id).name

\* The job row, as persisted when the event is emitted, holds what the event reports.
Persisted(job_id, event) ==
  /\ job_id \in DOMAIN jobs'
  /\ event.type \in {"step_started", "step_skipped"} =>
       /\ jobs'[job_id].current_step = event.step_number
       /\ jobs'[job_id].current_step_name = MasterName(event.step_id)
  /\ event.type = "step_completed" =>
       event.step_id \in Range(jobs'[job_id].steps_completed)
  /\ event.type \in {"completed", "failed"} =>
       /\ jobs'[job_id].status = event.type
       /\ jobs'[job_id].completed_at # NULL

\* C27 as stated: within a run, every event is emitted only after the state it
\* reports has been persisted.
C27_EventsAfterPersist_EveryRun ==
  [][ \A r \in 1..Len(runs) : Emits(r) => Persisted(runs[r].job, Emitted(r)) ]_vars

\* C27, for the runs whose job has a row: every event is emitted only after the
\* state it reports has been persisted: current_step and current_step_name for
\* step_started and step_skipped, the step's id in steps_completed for
\* step_completed, the terminal status and completed_at for completed and failed.
C27_EventsAfterPersist ==
  [][ \A r \in 1..Len(runs) :
        (Emits(r) /\ runs[r].job \in DOMAIN jobs) =>
          Persisted(runs[r].job, Emitted(r)) ]_vars

\* A run on an existing job has emitted step events and then completed, and
\* another has emitted failed.
C27_Witness ==
  \E r1, r2 \in 1..Len(runs) :
    /\ runs[r1].job \in DOMAIN jobs
    /\ runs[r2].job \in DOMAIN jobs
    /\ runs[r1].events # << >>
    /\ runs[r1].events[Len(runs[r1].events)].type = "completed"
    /\ runs[r2].events # << >>
    /\ runs[r2].events[Len(runs[r2].events)].type = "failed"

\* The record of tenant_id, or its absence, differs before and after the step.
TenantRecordChanges(tenant_id) ==
  get_tenant(tenants', tenant_id) # get_tenant(tenants, tenant_id)

\* The step is the execution of a step handler by a run of job j.
HandlerStepOf(j) ==
  \E r \in 1..Len(runs) :
    /\ runs[r].job = j
    /\ Len(runs'[r].handlers) = Len(runs[r].handlers) + 1

\* C28: while a job is pending or running, the tenant record of its tenant_id is
\* changed only by that job's own step handlers: by no other job's handlers and
\* by no update, suspend, activate or delete operation.
C28_OnlyHandlersMutateTenant ==
  [][ \A j \in DOMAIN jobs :
        ( /\ jobs[j].status \in {"pending", "running"}
          /\ TenantRecordChanges(jobs[j].tenant_id) ) => HandlerStepOf(j) ]_vars

\* In this step a progress value persisted on job j is overwritten by a value
\* that does not include it: a completed step id disappears, current_step (and
\* with it current_step_name) goes back, or a terminal status is replaced.
LosesUpdate(j) ==
  \/ \E x \in Range(jobs[j].steps_completed) : x \notin Range(jobs'[j].steps_completed)
  \/ jobs'[j].current_step < jobs[j].current_step
  \/ /\ jobs[j].status \in {"completed", "failed"}
     /\ jobs'[j].status # jobs[j].status

\* C29: updates to the job row are lost when, and only when, two runs drive the
\* same job id: every step that overwrites a persisted progress value (status,
\* current_step, current_step_name, steps_completed) with a value that does not
\* include it is a write of one run while another run that has started on the
\* same job exists; a state in which such a loss has happened is reachable.
C29_LostUpdateByConcurrentRun ==
  [][ \A j \in DOMAIN jobs :
        LosesUpdate(j) =>
          \E r1, r2 \in 1..Len(runs) :
            /\ r1 # r2
            /\ runs[r1].job = j
            /\ runs[r2].job = j
            /\ runs[r1].pc # "begin"
            /\ runs'[r2] # runs[r2] ]_vars

\* Two runs drive one job; one of them persisted current_step = n with its
\* step name and emitted step_started for it, and the row now holds a smaller
\* current_step and another name, written by the other run.
C29_Witness ==
  \E r1, r2 \in 1..Len(runs) :
    /\ r1 # r2
    /\ runs[r1].job = runs[r2].job
    /\ runs[r1].job \in DOMAIN jobs
    /\ \E i \in 1..Len(runs[r1].events) :
         /\ runs[r1].events[i].type = "step_started"
         /\ runs[r1].events[i].step_number > jobs[runs[r1].job].current_step
         /\ jobs[runs[r1].job].current_step = runs[r2].step_number
         /\ runs[r2].step_number > 0
         /\ jobs[runs[r1].job].current_step_name # MasterName(runs[r1].events[i].step_id)

\* Calls of update_provisioning_job: no argument, one, several, and arguments
\* that are set but falsy (0, "", []).
JobArgInputs ==
  { NoArgs,
    [NoArgs EXCEPT !.status = Some("running")],
    [NoArgs EXCEPT !.status = Some("")],
    [NoArgs EXCEPT !.current_step = Some(0), !.current_step_name = Some("")],
    [NoArgs EXCEPT !.current_step = Some(2), !.current_step_name = Some("Create Storage")],
    [NoArgs EXCEPT !.steps_completed = Some(<< >>)],
    [NoArgs EXCEPT !.steps_completed = Some(<<"create_record">>)],
    [NoArgs EXCEPT !.steps_skipped = Some(<<"deploy_worker">>)],
    [NoArgs EXCEPT !.status = Some("failed"), !.error = Some(""),
                   !.completed_at = Some(Now)] }

\* The columns update_provisioning_job has no argument for.
FixedJobColumns ==
  {"id", "tenant_id", "tenant_name", "tier", "total_steps", "created_at"}

\* The current job table with the row of one more job beside it.
OtherJob == MaxJobs + 1

WithOtherJob ==
  [ k \in DOMAIN jobs \cup {OtherJob} |->
      IF k \in DOMAIN jobs THEN jobs[k]
      ELSE create_provisioning_job(OtherJob, "Acme", "pro", NULL) ]

\* after is before with the supplied arguments written on the row of job_id.
PartialUpdate(before, after, job_id, args) ==
  IF job_id \notin DOMAIN before THEN after = before
  ELSE /\ DOMAIN after = DOMAIN before
       /\ \A k \in DOMAIN before \ {job_id} : after[k] = before[k]
       /\ \A c \in DOMAIN NoArgs :
            after[job_id][c] = IF args[c] = Nothing THEN before[job_id][c]
                               ELSE Value(args[c])
       /\ \A c \in FixedJobColumns : after[job_id][c] = before[job_id][c]
       /\ after[job_id].updated_at = Now

\* C30: update_provisioning_job changes only the fields passed as non-None
\* arguments, plus updated_at; every other column of the job row keeps its
\* value, the rows of other jobs are untouched, and a call for a job id that has
\* no row changes nothing and raises nothing.  Stated of every call on every
\* reachable job table, and of every step of the system: a step that changes a
\* job row leaves the columns without an argument as they were.
C30_PartialUpdate ==
  /\ [](\A job_id \in JobIdInputs \cup {OtherJob}, args \in JobArgInputs :
          PartialUpdate(WithOtherJob,
                        update_provisioning_job(WithOtherJob, job_id, args),
                        job_id, args))
  /\ [][ \A j \in DOMAIN jobs, c \in FixedJobColumns : jobs'[j][c] = jobs[j][c] ]_vars

\* The engine has updated a job row field by field: progress is recorded while
\* error and completed_at, never passed so far, still hold None.
C30_Witness ==
  \E j \in DOMAIN jobs :
    /\ jobs[j].status = "running"
    /\ jobs[j].current_step = 2
    /\ jobs[j].steps_completed = <<"create_record">>
    /\ jobs[j].error = NULL
    /\ jobs[j].completed_at = NULL
    /\ jobs[j].total_steps = Len(get_provisioning_steps(Value(get_tier(jobs[j].tier))))

\* The step just taken answered a status query.
StatusAnswered ==
  /\ response # Nothing
  /\ Value(response).request.route = "status"

\* C31: the status query is a pure read: a step that answers it, at any point of
\* a job's life and between any two statements of a run, leaves the job rows,
\* the tenant records and every run (its position, the handlers it has executed
\* and the events it has emitted) unchanged.
C31_StatusIsPureRead ==
  [][ StatusAnswered' =>
        /\ jobs' = jobs
        /\ tenants' = tenants
        /\ runs' = runs
        /\ nstreams' = nstreams ]_vars

\* A status query was answered 200 between two statements of a run that is
\* executing a step handler.
C31_Witness ==
  /\ StatusAnswered
  /\ Value(response).status_code = 200
  /\ Value(response).body.job.status = "running"
  /\ \E r \in 1..Len(runs) :
       /\ runs[r].pc = "exec"
       /\ runs[r].handlers # << >>
       /\ runs[r].events # << >>

\* The sequence holds no element twice.
NoDuplicates(seq) == Cardinality(Range(seq)) = Len(seq)

\* The run r decides in this step to skip a step.
Skips(r) == Len(runs'[r].steps_skipped) = Len(runs[r].steps_skipped) + 1

C33_CompletedAtIffTerminal ==
  \A j \in DOMAIN jobs :
    jobs[j].completed_at # NULL <=> jobs[j].status \in {"completed", "failed"}

\* The run r has inserted the tenant row: its create_record handler returned.
Inserted(r) ==
  /\ "create_record" \in Range(runs[r].handlers)
  /\ runs[r].error_msg # UniqueError

\* The run r has lost the race: its create_record handler found the row.
LostRace(r) ==
  /\ "create_record" \in Range(runs[r].handlers)
  /\ runs[r].error_msg = UniqueError

\* C34: for any tenant_id at most one provisioning job ever reaches status
\* completed, also when several jobs with that tenant_id are accepted before
\* any of them has run create_record: the insert of create_record succeeds for
\* one job only, and every other job for that id ends failed at step 1 without
\* modifying the tenant record (no hard delete of the tenant taking place).
C34_OneJobPerTenantCompletes ==
  /\ [](\A j1, j2 \in DOMAIN jobs :
          ( /\ jobs[j1].tenant_id = jobs[j2].tenant_id
            /\ jobs[j1].status = "completed"
            /\ jobs[j2].status = "completed" ) => j1 = j2)
  /\ [](\A r1, r2 \in 1..Len(runs) :
          ( /\ runs[r1].tenant_id = runs[r2].tenant_id
            /\ Inserted(r1) /\ Inserted(r2) ) => r1 = r2)
  /\ [](\A r \in 1..Len(runs) :
          LostRace(r) =>
            /\ runs[r].handlers = <<"create_record">>
            /\ runs[r].pc \in {"except", "done"}
            /\ runs[r].pc = "done" =>
                 /\ jobs[runs[r].job].status = "failed"
                 /\ jobs[runs[r].job].current_step = 1
                 /\ jobs[runs[r].job].steps_completed = << >>
                 /\ jobs[runs[r].job].error = UniqueError)
  /\ [][ \A r \in 1..Len(runs) :
           (LostRace(r)' /\ runs'[r] # runs[r]) => tenants' = tenants ]_vars

\* Two jobs for one tenant_id were accepted; one has completed and the other
\* has ended failed at step 1 on the row the first one inserted.
C34_Witness ==
  \E j1, j2 \in DOMAIN jobs :
    /\ j1 # j2
    /\ jobs[j1].tenant_id = jobs[j2].tenant_id
    /\ jobs[j1].status = "completed"
    /\ jobs[j2].status = "failed"
    /\ jobs[j2].current_step = 1
    /\ jobs[j1].tier # jobs[j2].tier
    /\ tenants[jobs[j1].tenant_id].tier = jobs[j1].tier
    /\ tenants[jobs[j1].tenant_id].status = "active"

\* C35: once a step id has been persisted in a job's steps_completed it stays
\* there: every step leaves the persisted steps_completed as it was or appends
\* one step id to it, also when a second run is driving the same job.
C35_StepsCompletedOnlyGrows ==
  [][ \A j \in DOMAIN jobs :
        \/ jobs'[j].steps_completed = jobs[j].steps_completed
        \/ /\ Len(jobs'[j].steps_completed) = Len(jobs[j].steps_completed) + 1
           /\ SubSeq(jobs'[j].steps_completed, 1, Len(jobs[j].steps_completed))
                = jobs[j].steps_completed ]_vars

\* C36: in every run, for every tier of the registry, the engine emits no
\* step_skipped event and the persisted steps_skipped stays empty: the loop
\* iterates the tier's filtered list, and the skip test is false of every step
\* the filter kept.
C36_NothingIsSkipped ==
  /\ \A t \in DOMAIN TENANT_TIERS :
       \A step \in Range(get_provisioning_steps(TENANT_TIERS[t])) :
         ~should_skip(TENANT_TIERS[t], step)
  /\ \A j \in DOMAIN jobs : jobs[j].steps_skipped = << >>
  /\ \A r \in 1..Len(runs) :
       /\ runs[r].steps_skipped = << >>
       /\ \A i \in 1..Len(runs[r].events) : runs[r].events[i].type # "step_skipped"
       /\ \A i \in 1..Len(runs[r].sent) : runs[r].sent[i].type # "step_skipped"

\* A run of a pro job, whose tier lacks the feature of one master step, has
\* gone through its whole list and emitted completed.
C36_Witness ==
  \E r \in 1..Len(runs) :
    /\ runs[r].tier = "pro"
    /\ runs[r].pc = "done"
    /\ runs[r].events # << >>
    /\ runs[r].events[Len(runs[r].events)].type = "completed"
    /\ jobs[runs[r].job].total_steps = Len(PROVISIONING_STEPS) - 1
    /\ jobs[runs[r].job].steps_skipped = << >>

\* C37: when a job's persisted status is completed, its steps_completed is
\* exactly the ordered list of the ids of get_provisioning_steps(job tier):
\* every applicable step once, in master order, and no other id.
C37_CompletedListsAllSteps ==
  \A j \in DOMAIN jobs :
    jobs[j].status = "completed" =>
      jobs[j].steps_completed =
        StepIds(get_provisioning_steps(Value(get_tier(jobs[j].tier))))

\* C38: the id, tenant_id, tenant_name, tier, total_steps and created_at of a
\* job row never change after create_provisioning_job has inserted it, and the
\* row is never removed: no run and no update_provisioning_job call modifies
\* them.  They are the values of the insertion: the id is the row's key,
\* total_steps the length of the tier's step list, created_at its time.
C38_JobIdentityFixed ==
  /\ [][ \A j \in DOMAIN jobs :
           /\ j \in DOMAIN jobs'
           /\ jobs'[j].id = jobs[j].id
           /\ jobs'[j].tenant_id = jobs[j].tenant_id
           /\ jobs'[j].tenant_name = jobs[j].tenant_name
           /\ jobs'[j].tier = jobs[j].tier
           /\ jobs'[j].total_steps = jobs[j].total_steps
           /\ jobs'[j].created_at = jobs[j].created_at ]_vars
  /\ [](\A j \in DOMAIN jobs :
          /\ jobs[j].id = j
          /\ jobs[j].tier \in DOMAIN TENANT_TIERS
          /\ jobs[j].total_steps = Len(get_provisioning_steps(TENANT_TIERS[jobs[j].tier]))
          /\ jobs[j].created_at = Now)

\* A job row that two runs have written many times, the second after the
\* first had failed, still holds what was inserted.
C38_Witness ==
  \E j \in DOMAIN jobs :
    /\ Cardinality({r \in 1..Len(runs) : runs[r].job = j /\ runs[r].pc = "done"}) = 2
    /\ jobs[j].status = "failed"
    /\ jobs[j].current_step \in 1..jobs[j].total_steps
    /\ jobs[j].id = j
    /\ jobs[j].tenant_name = "Acme"
    /\ jobs[j].tier = "enterprise"
    /\ jobs[j].total_steps = Len(PROVISIONING_STEPS)

\* The indices of the steps a status response reports with the given status.
Reported(body, status) == {i \in 1..Len(body.steps) : body.steps[i].status = status}

\* C39: in every status response at most one step has derived status running,
\* and only while the job status is running; for a job whose status is
\* completed every step is reported completed or skipped; for a failed job no
\* step is reported running and the step whose handler raised is reported
\* pending.
C39_DerivedStatusConsistent ==
  (StatusAnswered /\ Value(response).status_code = 200) =>
    LET body == Value(response).body IN
    /\ Cardinality(Reported(body, "running")) <= 1
    /\ Reported(body, "running") # {} => body.job.status = "running"
    /\ body.job.status = "completed" =>
         Reported(body, "completed") \cup Reported(body, "skipped") = 1..Len(body.steps)
    /\ body.job.status = "failed" =>
         \A r \in 1..Len(runs) :
           ( /\ runs[r].job = body.job.id
             /\ runs[r].pc = "done"
             /\ runs[r].raised_in = "handler" ) =>
             runs[r].step_number \in Reported(body, "pending")

====
